---------------------------- MODULE Spec2Model ----------------------------
(***************************************************************************)
(* Isentropic-flow calculator (src/aerocalc.py, lines 7-82): the four      *)
(* relations, the bisection root-finder, the inverse mappings and the      *)
(* facade isentropic_calculator.                                           *)
(*                                                                         *)
(* Numbers.  Python floats are modelled as fixed-point numbers on a grid   *)
(* of resolution 1/Scale: the integer n stands for n/Scale and every       *)
(* arithmetic result is rounded to the grid, as a float operation rounds   *)
(* to the nearest representable number.  A float value is a record         *)
(* [k, v]: k = "fin" (v is the grid integer), k = "inf" (v is the sign)    *)
(* or k = "nan".  Comparisons with a nan are false, as in IEEE-754.        *)
(* Python raises ZeroDivisionError on a float division by zero; that is    *)
(* the outcome "ZeroDivisionError" of a call.  The OverflowError of a **    *)
(* whose result exceeds the float range needs magnitudes (|M| > 1e154, or  *)
(* gamma within 0.004 of 1) that the grid's integers do not hold: inputs   *)
(* are kept within the range the grid represents.                          *)
(***************************************************************************)
EXTENDS Integers, Sequences, FiniteSets, TLC

\* ------------------------------------------------------------- bounds ----
\* Grid resolution: Scale grid units make 1.0.
ScaleBits == 9
Scale == 2 ^ ScaleBits

\* tol = 1e-10 (line 21) and the bracket margin 1e-8 (lines 44-57) lie far
\* below any grid TLC can enumerate.  They are kept as numbers of grid units,
\* in the order the program has them: resolution < tol < margin < 1.
TolUnits == 2
MarginUnits == 4

\* ----------------------------------------------------- program constants -
\* Upper end of the search bracket, in Mach (lines 44, 48, 57).
MachHigh == 50
\* Default iteration cap of solve_bisection (line 21).
max_iter == 200

tol == TolUnits
eps == MarginUnits
One == Scale
high50 == MachHigh * Scale

\* ------------------------------------------------------ float values -----
Fin(n) == [k |-> "fin", v |-> n]
NaN == [k |-> "nan", v |-> 0]
PInf == [k |-> "inf", v |-> 1]
NInf == [k |-> "inf", v |-> -1]

\* math.isfinite (line 73).
isfinite(x) == x.k = "fin"

Sgn(x) == IF x.v > 0 THEN 1 ELSE IF x.v < 0 THEN -1 ELSE 0

\* x - y on floats (the residual f(x) - target of lines 23 and 28).
FSub(x, y) ==
  CASE x.k = "nan" \/ y.k = "nan" -> NaN
    [] x.k = "inf" /\ y.k = "inf" -> IF x.v = y.v THEN NaN ELSE x
    [] x.k = "inf" -> x
    [] y.k = "inf" -> IF y.v > 0 THEN NInf ELSE PInf
    [] OTHER -> Fin(x.v - y.v)

\* The product x * y is a nan when a factor is, and for inf * 0.
ProdIsNaN(x, y) ==
  \/ x.k = "nan"
  \/ y.k = "nan"
  \/ (x.k = "inf" /\ y.k = "fin" /\ y.v = 0)
  \/ (y.k = "inf" /\ x.k = "fin" /\ x.v = 0)

\* x * y > 0 (line 24) and x * y <= 0 (line 31): only the product's sign is
\* used.  A residual here is 0 or at least one grid unit, so a product
\* of nonzero residuals is nonzero.
ProdGt0(x, y) == ~ProdIsNaN(x, y) /\ Sgn(x) * Sgn(y) > 0
ProdLe0(x, y) == ~ProdIsNaN(x, y) /\ Sgn(x) * Sgn(y) <= 0

\* abs(x) < t (line 29).
AbsLt(x, t) == x.k = "fin" /\ x.v < t /\ -x.v < t

\* x < y on floats (lines 38 and 51), y finite.
FLt(x, y) ==
  CASE x.k = "nan" -> FALSE
    [] x.k = "inf" -> x.v < 0
    [] OTHER -> x.v < y

\* ------------------------------------------------ fixed-point arithmetic -
\* Arithmetic is written as functions of its operands: a function is
\* applied to the values of its arguments, as Python evaluates the operands
\* of an operation before the operation.

\* x * y rounded to the grid.  The operands are split so that no
\* intermediate exceeds the result's magnitude.
MulF[x \in Int, y \in Int] ==
  LET xq == x \div Scale
      xr == x % Scale
      yq == y \div Scale
      yr == y % Scale
  IN  xq * yq * Scale + xq * yr + xr * yq + ((xr * yr + Scale \div 2) \div Scale)

Mul(x, y) == MulF[x, y]

\* x / y rounded to the grid, x >= 0 and y # 0.
Div(x, y) ==
  IF y > 0 THEN (2 * x * Scale + y) \div (2 * y)
  ELSE -((2 * x * Scale - y) \div (2 * (-y)))

\* r * r <= x * Scale, without forming either product.
SqLeq(r, x) ==
  LET q == (r \div Scale) * (r \div Scale) * Scale
             + 2 * (r \div Scale) * (r % Scale)
             + (((r % Scale) * (r % Scale)) \div Scale)
      m == ((r % Scale) * (r % Scale)) % Scale
  IN  q < x \/ (q = x /\ m = 0)

\* The largest r in lo..hi with r * r <= x * Scale, by binary search.
SqrtSearch[x \in Int, lo \in Int, hi \in Int] ==
  IF lo >= hi THEN lo
  ELSE LET m == (lo + hi + 1) \div 2
       IN  IF SqLeq(m, x) THEN SqrtSearch[x, m, hi] ELSE SqrtSearch[x, lo, m - 1]

\* math.sqrt and x ** 0.5 on the grid, rounded down (0 for x <= 0).
Sqrt(x) == SqrtSearch[x, 0, IF x > Scale THEN x ELSE Scale]

IntPow[x \in Int, n \in Nat] == IF n = 0 THEN One ELSE Mul(IntPow[x, n - 1], x)

\* x ** e for x > 0 and an exponent e that is a multiple of one half, which
\* is what the exponents of the relations are for the values of Gammas.
PowF[x \in Int, e \in Int] ==
  LET p == IntPow[x, e \div Scale]
  IN  IF e % Scale = 0 THEN p ELSE Mul(Sqrt(x), p)

Pow(x, e) == PowF[x, e]

\* 0.5 * (a + b) (lines 27 and 35): the sum is exact and the halving rounds
\* to the nearest grid point, ties to the even one.
Mid(a, b) ==
  LET s == a + b
      q == s \div 2
  IN  IF s % 2 = 0 THEN q ELSE IF q % 2 = 0 THEN q ELSE q + 1

\* ---------------------------------------------------------- relations ----
\* Lines 7-8.  M and gamma are grid integers.
T0_over_T(M, gamma) == One + Mul(Div(gamma - One, 2 * One), Mul(M, M))

\* Lines 10-11.
P0_over_P(M, gamma) == Pow(T0_over_T(M, gamma), Div(gamma, gamma - One))

\* Lines 13-14.
rho0_over_rho(M, gamma) == Pow(T0_over_T(M, gamma), Div(One, gamma - One))

\* Lines 16-19, M # 0.
A_over_Astar(M, gamma) ==
  LET term == Mul(Div(2 * One, gamma + One), T0_over_T(M, gamma))
      exponent == Div(gamma + One, 2 * (gamma - One))
  IN  Mul(Div(One, M), Pow(term, exponent))

\* The lambda f handed to solve_bisection (lines 43, 47, 53).
Apply(fname, M, gamma) ==
  CASE fname = "P0_over_P" -> P0_over_P(M, gamma)
    [] fname = "rho0_over_rho" -> rho0_over_rho(M, gamma)
    [] OTHER -> A_over_Astar(M, gamma)

\* mach_from_T0T without the check of line 38.
mach_from_T0T_unchecked(T0T, gamma) ==
  CASE T0T.k = "nan" -> NaN
    [] T0T.k = "inf" -> T0T
    [] OTHER -> Fin(Sqrt(Mul(Div(2 * One, gamma - One), T0T.v - One)))

\* Lines 37-40.
mach_from_T0T(T0T, gamma) ==
  IF FLt(T0T, One) THEN NaN
  ELSE CASE T0T.k = "nan" -> NaN
         [] T0T.k = "inf" -> PInf
         [] OTHER -> Fin(Sqrt(Mul(Div(2 * One, gamma - One), T0T.v - One)))


\* ------------------------------------------------------------ inputs -----
\* gamma > 1 with half-integer exponents: 2 and 3.
Gammas == {2 * One, 3 * One}

InputKinds == {"Mach", "T0/T", "P0/P", "rho0/rho", "A/A*", "bogus"}

Branches == {"subsonic", "supersonic"}

\* Finite input values, in grid units: negative, zero, below the bracket
\* margin, around 1, inside the brackets, and beyond what the brackets reach.
FiniteInputs ==
  { -2 * One, 0, 1, eps \div 2, One \div 2, One - 1, One, One + 1,
    One + One \div 2, 2 * One, 2 * One + 3, 7 * One + 5, 30 * One,
    60 * One + 1, 1000 * One + 77 }

InputValues == {Fin(n) : n \in FiniteInputs} \cup {NaN, PInf}

\* The values supplied with a kind.  A Mach number above MachHigh has ratios
\* beyond the range of the grid's integers and is left out.
InputsOf(kind) ==
  IF kind = "Mach"
    THEN {x \in InputValues : x.k = "fin" => x.v <= high50}
    ELSE InputValues

\* The value of src while no ratio is being fed back.
NoSrc == [k |-> "none", v |-> 0]

\* ------------------------------------------------------------- state -----
VARIABLES
  input_type, input_value, gamma, branch,  \* the arguments of the call
  pc,        \* position in isentropic_calculator / solve_bisection
  M,         \* the resolved Mach number (a float value)
  fname, target, low, high,                \* arguments of solve_bisection
  a, b, fa, fb,                            \* its bracket and stored residuals
  it,        \* loop iterations begun
  mid, fm,   \* the last midpoint and its residual
  exit,      \* how solve_bisection returned: "", "unbracketed", "tol", "exhausted"
  nend, nmid,                              \* evaluations of f: endpoints, midpoints
  calls,     \* functions entered so far in this call (history)
  result,    \* outcome of the call
  src        \* the Mach number whose ratio is being fed back, or NoSrc

args == <<input_type, input_value, gamma, branch>>
solver == <<fname, target, low, high, a, b, fa, fb, it, mid, fm, exit, nend, nmid>>
vars == <<input_type, input_value, gamma, branch, pc, M, fname, target, low,
          high, a, b, fa, fb, it, mid, fm, exit, nend, nmid, calls, result, src>>

NoResult(tag) ==
  [tag |-> tag, Mach |-> 0, T0T |-> 0, P0P |-> 0, rho0rho |-> 0, AAstar |-> 0]

SolverIdle ==
  /\ fname = "" /\ target = NaN /\ low = 0 /\ high = 0
  /\ a = 0 /\ b = 0 /\ fa = NaN /\ fb = NaN
  /\ it = 0 /\ mid = 0 /\ fm = NaN /\ exit = ""
  /\ nend = 0 /\ nmid = 0

Init ==
  /\ input_type \in InputKinds
  /\ input_value \in InputsOf(input_type)
  /\ gamma \in Gammas
  /\ branch \in Branches
  /\ pc = "dispatch"
  /\ M = NaN
  /\ SolverIdle
  /\ calls = {}
  /\ result = NoResult("pending")
  /\ src = NoSrc

\* ------------------------------------------------------ solve_bisection --
\* The call solve_bisection(f, target, lo, hi) of lines 44, 48, 55, 57.
Enter(f, t, lo, hi) ==
  /\ pc' = "bisect"
  /\ fname' = f /\ target' = t /\ low' = lo /\ high' = hi
  /\ UNCHANGED <<a, b, fa, fb, it, mid, fm, exit, nend, nmid>>

Resid(x) == FSub(Fin(Apply(fname, x, gamma)), target)

\* Lines 22-25: the endpoint residuals and the sign check.
solve_bisection_check ==
  /\ pc = "bisect"
  /\ a' = low /\ b' = high
  /\ fa' = Resid(low) /\ fb' = Resid(high)
  /\ nend' = nend + 2
  /\ IF ProdGt0(fa', fb')
       THEN /\ M' = NaN /\ exit' = "unbracketed" /\ pc' = "validate"
       ELSE /\ M' = M /\ exit' = exit /\ pc' = "loop"
  /\ UNCHANGED <<args, fname, target, low, high, it, mid, fm, nmid, calls, result, src>>

\* The update with the halves exchanged.
Update_swapped(m, r) ==
  IF ProdLe0(fa, r) THEN <<m, b, r, fb>> ELSE <<a, m, fa, r>>

\* The update of lines 31-34: <<a, b, fa, fb>> after a midpoint m with
\* residual r that missed the tolerance.
Update(m, r) ==
  IF ProdLe0(fa, r) THEN <<a, m, fa, r>> ELSE <<m, b, r, fb>>

\* The iteration of lines 26-34, parametrised by its bound.
Iterate(bound) ==
  /\ pc = "loop"
  /\ it < bound
  /\ it' = it + 1
  /\ mid' = Mid(a, b)
  /\ fm' = Resid(mid')
  /\ nmid' = nmid + 1
  /\ IF AbsLt(fm', tol)
       THEN /\ M' = Fin(mid') /\ exit' = "tol" /\ pc' = "validate"
            /\ UNCHANGED <<a, b, fa, fb>>
       ELSE /\ LET u == Update(mid', fm')
               IN  a' = u[1] /\ b' = u[2] /\ fa' = u[3] /\ fb' = u[4]
            /\ UNCHANGED <<M, exit, pc>>
  /\ UNCHANGED <<args, fname, target, low, high, nend, calls, result, src>>

\* A loop that runs once more than max_iter.
solve_bisection_iter_offbyone == Iterate(max_iter + 1)

\* Lines 26-34: one iteration of the loop.
solve_bisection_iter == Iterate(max_iter)

\* The return after the loop, with value m.
Exhaust(m) ==
  /\ pc = "loop"
  /\ it >= max_iter
  /\ M' = m
  /\ exit' = "exhausted"
  /\ pc' = "validate"
  /\ UNCHANGED <<args, fname, target, low, high, a, b, fa, fb, it, mid, fm,
                 nend, nmid, calls, result, src>>

\* Exhaustion reported as a failure.
solve_bisection_exhaust_nan == Exhaust(NaN)

\* Line 35: the loop ran max_iter times.
solve_bisection_exhaust == Exhaust(Fin(Mid(a, b)))

\* ------------------------------------------------- isentropic_calculator -
\* Lines 60-61.
DispatchMach ==
  /\ pc = "dispatch" /\ input_type = "Mach"
  /\ M' = input_value
  /\ pc' = "validate"
  /\ UNCHANGED <<args, solver, calls, result, src>>

\* Lines 62-63.
DispatchT0T ==
  /\ pc = "dispatch" /\ input_type = "T0/T"
  /\ M' = mach_from_T0T(input_value, gamma)
  /\ calls' = calls \cup {"mach_from_T0T"}
  /\ pc' = "validate"
  /\ UNCHANGED <<args, solver, result, src>>

\* Lines 64-65 and mach_from_P0P, lines 42-44.
mach_from_P0P ==
  /\ pc = "dispatch" /\ input_type = "P0/P"
  /\ calls' = calls \cup {"mach_from_P0P", "solve_bisection"}
  /\ Enter("P0_over_P", input_value, eps, high50)
  /\ UNCHANGED <<args, M, result, src>>

\* Lines 66-67 and mach_from_rho0rho, lines 46-48.
mach_from_rho0rho ==
  /\ pc = "dispatch" /\ input_type = "rho0/rho"
  /\ calls' = calls \cup {"mach_from_rho0rho", "solve_bisection"}
  /\ Enter("rho0_over_rho", input_value, eps, high50)
  /\ UNCHANGED <<args, M, result, src>>

\* Lines 68-69 and mach_from_AAstar, lines 50-52: the value is below 1.
mach_from_AAstar_reject ==
  /\ pc = "dispatch" /\ input_type = "A/A*"
  /\ FLt(input_value, One)
  /\ M' = NaN
  /\ calls' = calls \cup {"mach_from_AAstar"}
  /\ pc' = "validate"
  /\ UNCHANGED <<args, solver, result, src>>

\* Lines 53-57 with the branch br searched.
SearchBranch(br) ==
  /\ pc = "dispatch" /\ input_type = "A/A*"
  /\ ~FLt(input_value, One)
  /\ calls' = calls \cup {"mach_from_AAstar", "solve_bisection"}
  /\ IF br = "subsonic"
       THEN Enter("A_over_Astar", input_value, eps, One - eps)
       ELSE Enter("A_over_Astar", input_value, One + eps, high50)
  /\ UNCHANGED <<args, M, result, src>>

\* The test of line 54 inverted.
mach_from_AAstar_inverted ==
  SearchBranch(IF branch = "subsonic" THEN "supersonic" ELSE "subsonic")

\* Lines 68-69 and mach_from_AAstar, lines 53-57: the branch's bracket.
mach_from_AAstar == SearchBranch(branch)

KnownKinds == {"Mach", "T0/T", "P0/P", "rho0/rho", "A/A*"}

\* No else branch: the value is taken for M.
DispatchUnknown_fallthrough ==
  /\ pc = "dispatch" /\ input_type \notin KnownKinds
  /\ M' = input_value
  /\ pc' = "validate"
  /\ UNCHANGED <<args, solver, calls, result, src>>

\* Lines 70-71.
DispatchUnknown ==
  /\ pc = "dispatch" /\ input_type \notin KnownKinds
  /\ result' = NoResult("None")
  /\ pc' = "done"
  /\ UNCHANGED <<args, M, solver, calls, src>>

\* Lines 73-74.
Validate ==
  /\ pc = "validate"
  /\ IF ~isfinite(M)
       THEN /\ result' = NoResult("None") /\ pc' = "done"
       ELSE /\ result' = result /\ pc' = "compose"
  /\ UNCHANGED <<args, M, solver, calls, src>>

\* Lines 76-82: the dict literal evaluates the four relations in order;
\* 1 / M in A_over_Astar raises ZeroDivisionError when M is 0.
RatioSet(m, g) ==
  IF m = 0 THEN NoResult("ZeroDivisionError")
  ELSE [tag |-> "dict", Mach |-> m, T0T |-> T0_over_T(m, g),
        P0P |-> P0_over_P(m, g), rho0rho |-> rho0_over_rho(m, g),
        AAstar |-> A_over_Astar(m, g)]

Compose ==
  /\ pc = "compose"
  /\ result' = RatioSet(M.v, gamma)
  /\ calls' = calls \cup {"T0_over_T", "P0_over_P", "rho0_over_rho", "A_over_Astar"}
  /\ pc' = "done"
  /\ UNCHANGED <<args, M, solver, src>>

isentropic_calculator ==
  \/ DispatchMach
  \/ DispatchT0T
  \/ mach_from_P0P
  \/ mach_from_rho0rho
  \/ mach_from_AAstar_reject
  \/ mach_from_AAstar
  \/ DispatchUnknown
  \/ solve_bisection_check
  \/ solve_bisection_iter
  \/ solve_bisection_exhaust
  \/ Validate
  \/ Compose

\* ----------------------------------------------------------- round trip --
RatioOf(kind, r) ==
  CASE kind = "T0/T" -> r.T0T
    [] kind = "P0/P" -> r.P0P
    [] kind = "rho0/rho" -> r.rho0rho
    [] OTHER -> r.AAstar

\* The caller of the round trip: after a call of kind Mach at 0 < M < 50
\* returned a ratio set, one of its four ratios is supplied as the input of
\* its own kind, with the branch on M's side of 1 for A/A*.
FeedBack ==
  /\ pc = "done" /\ src = NoSrc
  /\ input_type = "Mach" /\ result.tag = "dict"
  /\ result.Mach > 0 /\ result.Mach < high50
  /\ \E kind \in {"T0/T", "P0/P", "rho0/rho", "A/A*"} :
       /\ kind = "A/A*" => result.Mach # One
       /\ input_type' = kind
       /\ input_value' = Fin(RatioOf(kind, result))
  /\ branch' = IF result.Mach < One THEN "subsonic" ELSE "supersonic"
  /\ src' = Fin(result.Mach)
  /\ pc' = "dispatch"
  /\ M' = NaN
  /\ fname' = "" /\ target' = NaN /\ low' = 0 /\ high' = 0
  /\ a' = 0 /\ b' = 0 /\ fa' = NaN /\ fb' = NaN
  /\ it' = 0 /\ mid' = 0 /\ fm' = NaN /\ exit' = ""
  /\ nend' = 0 /\ nmid' = 0
  /\ calls' = {}
  /\ result' = NoResult("pending")
  /\ UNCHANGED gamma

Next == isentropic_calculator \/ FeedBack

Spec == Init /\ [][Next]_vars

\* Every enabled step of a call is eventually taken: the program is
\* sequential and runs a call to its end.
FairSpec == Spec /\ WF_vars(isentropic_calculator)


\* ================================================================ claims ==
Returned == pc = "done"

SolverKinds == {"P0/P", "rho0/rho", "A/A*"}

\* ---------------------------------------------------------------- C1 -----
\* C1: a call ends either with the ratio set computed from the resolved M
\* (its Mach entry is that M) or with None, and never with a raised error.
C1_TwoOutcomes ==
  Returned =>
    \/ result.tag = "None"
    \/ /\ result.tag = "dict"
       /\ isfinite(M)
       /\ result.Mach = M.v
       /\ result.T0T = T0_over_T(M.v, gamma)
       /\ result.P0P = P0_over_P(M.v, gamma)
       /\ result.rho0rho = rho0_over_rho(M.v, gamma)
       /\ result.AAstar = A_over_Astar(M.v, gamma)

\* ---------------------------------------------------------------- C2 -----
BelowOne == input_type \in {"T0/T", "A/A*"} /\ FLt(input_value, One)

\* C2: for kind T0/T or A/A* with a value below 1 the inverse mapping yields
\* nan without entering solve_bisection (f is never evaluated), and the call
\* returns None; no numeric M and no ratio set is produced.
C2_BoundaryRejection ==
  (BelowOne /\ pc # "dispatch") =>
    /\ M = NaN
    /\ "solve_bisection" \notin calls
    /\ nend = 0 /\ nmid = 0
    /\ pc \in {"validate", "done"}
    /\ Returned => result.tag = "None"

C2_Witness ==
  /\ Returned /\ BelowOne
  /\ input_type = "T0/T" /\ input_value = Fin(One - 1)
  /\ result.tag = "None"

\* ---------------------------------------------------------------- C3 -----
\* f(low) <= target <= f(high) or f(high) <= target <= f(low).
TargetBetween ==
  /\ target.k = "fin"
  /\ LET lo == Apply(fname, low, gamma)
         hi == Apply(fname, high, gamma)
     IN  \/ (lo <= target.v /\ target.v <= hi)
         \/ (hi <= target.v /\ target.v <= lo)

\* C3: for kinds P0/P, rho0/rho and A/A*, when the endpoint residuals do not
\* change sign or the target is a nan, solve_bisection returns nan and the
\* call returns None; a numeric M comes only from a target between f(low)
\* and f(high).
C3_UnbracketedFails ==
  (Returned /\ input_type \in SolverKinds /\ "solve_bisection" \in calls) =>
    /\ (target.k = "nan" \/ ProdGt0(Resid(low), Resid(high)))
         => (M = NaN /\ result.tag = "None")
    /\ isfinite(M) => TargetBetween

\* ---------------------------------------------------------------- C4 -----
\* C4: for an input kind outside the five known ones the call returns None
\* whatever the value, gamma and branch, before any inverse mapping, solver
\* or relation is evaluated.
C4_UnknownKind ==
  (input_type \notin KnownKinds) =>
    /\ pc \in {"dispatch", "done"}
    /\ calls = {}
    /\ nend = 0 /\ nmid = 0
    /\ M = NaN
    /\ Returned => result.tag = "None"

C4_Witness ==
  /\ Returned
  /\ input_type = "bogus"
  /\ input_value = Fin(2 * One)
  /\ result.tag = "None"

\* ---------------------------------------------------------------- C5 -----
AtLeastOne == input_value.k # "nan" /\ ~FLt(input_value, One)

\* C5: for kind A/A* with a value >= 1, a numeric M returned by
\* mach_from_AAstar lies in the selected branch's bracket: [eps, 1 - eps]
\* for subsonic, [1 + eps, 50] for supersonic; so the subsonic M is below 1
\* and the supersonic one above, and the two never coincide.
C5_BranchCorrectness ==
  (input_type = "A/A*" /\ AtLeastOne /\ pc \in {"validate", "compose", "done"}
     /\ isfinite(M)) =>
    /\ branch = "subsonic" => (eps <= M.v /\ M.v <= One - eps /\ M.v < One)
    /\ branch # "subsonic" => (One + eps <= M.v /\ M.v <= high50 /\ M.v > One)

C5_Witness ==
  /\ Returned
  /\ input_type = "A/A*" /\ input_value = Fin(2 * One) /\ src = NoSrc
  /\ branch = "supersonic"
  /\ result.tag = "dict" /\ result.Mach > One

\* ---------------------------------------------------------------- C6 -----
Dist(x, y) == IF x >= y THEN x - y ELSE y - x

\* C6: feeding a ratio computed at 0 < M < 50 back as the input of its own
\* kind returns a ratio set whose Mach equals M within 1e-6 relative error
\* (here: within one grid step where 1e-6 * M is below the resolution).
C6_RoundTrip ==
  (Returned /\ src # NoSrc) =>
    /\ result.tag = "dict"
    /\ LET rel == src.v \div 1000000
           slack == IF rel > 1 THEN rel ELSE 1
       IN  Dist(result.Mach, src.v) <= slack

\* ---------------------------------------------------------------- C7 -----
\* C7: every returned ratio set has its five values positive.
C7_AllPositive ==
  (Returned /\ result.tag = "dict") =>
    /\ result.Mach > 0
    /\ result.T0T > 0
    /\ result.P0P > 0
    /\ result.rho0rho > 0
    /\ result.AAstar > 0

\* ---------------------------------------------------------------- C8 -----
\* C8: solve_bisection evaluates f at most twice at the endpoints and at
\* most max_iter times at midpoints, and every call of
\* isentropic_calculator reaches its end.
C8_Termination ==
  /\ [](nend <= 2 /\ nmid <= max_iter /\ it <= max_iter /\ nmid = it)
  /\ (~Returned) ~> Returned

C8_Witness ==
  /\ Returned
  /\ nend = 2 /\ nmid = max_iter
  /\ input_type = "rho0/rho"

\* ---------------------------------------------------------------- C9 -----
\* The sign check of line 24 passed: the endpoint residuals do not have the
\* same sign.
SignCheckPassed == ProdLe0(Resid(low), Resid(high))

LoopHead == pc = "loop" /\ it < max_iter

\* An iteration that missed the tolerance and goes on.
IterContinues == pc = "loop" /\ pc' = "loop" /\ it' = it + 1

\* Exactly one endpoint becomes the midpoint: b when fa * fm <= 0, a otherwise.
OneEndpointReplaced ==
  IF ProdLe0(fa, fm')
    THEN a' = a /\ fa' = fa /\ b' = mid' /\ fb' = fm'
    ELSE a' = mid' /\ fa' = fm' /\ b' = b /\ fb' = fb

BracketInv ==
  /\ low <= a /\ a < b /\ b <= high
  /\ fa = Resid(a) /\ fb = Resid(b)
  /\ ProdLe0(fa, fb)

C10_ReturnValue ==
  /\ [](exit = "tol" => (AbsLt(fm, tol) /\ M = Fin(mid) /\ mid = Mid(a, b)))
  /\ [](exit = "exhausted" =>
          /\ it = max_iter /\ ~AbsLt(fm, tol)
          /\ M = Fin(Mid(a, b)) /\ isfinite(M)
          /\ Returned => result.tag = "dict")
  /\ [][IterContinues => ~AbsLt(fm', tol)]_vars
  /\ [][(pc = "loop" /\ pc' # "loop") =>
          (IF AbsLt(fm', tol) /\ it' = it + 1 THEN exit' = "tol"
           ELSE exit' = "exhausted" /\ it = max_iter)]_vars

C10_Witness ==
  /\ Returned
  /\ exit = "exhausted"
  /\ target.k = "fin" /\ input_type = "P0/P"
  /\ result.tag = "dict"

=============================================================================
